---- MODULE Spec2Model ----
(***************************************************************************)
(* Model of the medical-records backend: the authorization gate            *)
(* (auth/authorization.py, auth/firebase.py, services/user.py,             *)
(* services/doctor.py) and the visit/patient record stores with the        *)
(* denormalised observation write (services/visits.py,                     *)
(* services/patient.py, models/visit.py, models/patient.py).               *)
(***************************************************************************)
EXTENDS Integers, Sequences, FiniteSets, TLC

VARIABLES users, legacyDoctors, req, visits, patients, nextId, nextVisit, op, hist,
          exams, results, fresh, submitted, pending

authVars == <<users, legacyDoctors, req>>
syncVars == <<visits, patients, nextId, nextVisit, op, hist>>
examVars == <<exams, results, fresh, submitted, pending>>
vars == <<users, legacyDoctors, req, visits, patients, nextId, nextVisit, op, hist,
          exams, results, fresh, submitted, pending>>

(***************************************************************************)
(* Part 1.  Identities, user directory and the authorization gate.         *)
(***************************************************************************)

\* Number of Firebase subjects (and of valid bearer tokens) in the model.
MaxUsers == 1

UIDs == 1..MaxUsers

\* A bearer token the Identity Verifier never accepts.
BadToken == 0

\* The bearer token of subject u is u itself; BadToken belongs to nobody.
Tokens == UIDs \cup {BadToken}

\* schemas/enums.py UserRole
UserRole == {"admin", "doctor", "police", "patient"}

\* Python's None.
None == [kind |-> "None"]

\* A document of the "users" collection (models/user.py UserDB), reduced to
\* the fields the gate reads.
UserDB == [kind : {"UserDB"}, role : UserRole, enabled : BOOLEAN, is_admin : BOOLEAN]

\* A legacy document of the "doctors" collection carrying a firebase_uid
\* (schemas/user.py DoctorLegacy), reduced to the fields the gate reads.
DoctorLegacy == [kind : {"DoctorLegacy"}, enabled : BOOLEAN]

\* The most verify_id_token calls one request makes: one in the new system,
\* two in the legacy fallback of FirebaseAuth.verify_token.
MaxVerifyCalls == 3

\* The outcomes of the successive verify_id_token calls of one request:
\* a token nobody owns is always rejected, a subject's token is accepted or
\* (clock skew, expiry, certificate fetch) rejected call by call.
Oracles(token) ==
    IF token = BadToken
    THEN {[i \in 1..MaxVerifyCalls |-> FALSE]}
    ELSE [1..MaxVerifyCalls -> BOOLEAN]

\* UserService.get_user_by_firebase_uid: the user, or None when there is
\* none or it is disabled.
get_user_by_firebase_uid(uid) ==
    LET user_db == users[uid] IN
    IF user_db # None /\ user_db.enabled
    THEN [kind |-> "User", uid |-> uid, role |-> user_db.role,
          enabled |-> user_db.enabled, is_admin |-> user_db.is_admin]
    ELSE None

\* UserService.get_doctor_by_firebase_uid
get_doctor_by_firebase_uid(uid) ==
    LET user_db == users[uid] IN
    IF user_db = None \/ ~user_db.enabled \/ user_db.role # "doctor"
    THEN None
    ELSE [kind |-> "Doctor", uid |-> uid, role |-> user_db.role,
          enabled |-> user_db.enabled, is_admin |-> user_db.is_admin]

\* UserService.get_police_by_firebase_uid
get_police_by_firebase_uid(uid) ==
    LET user_db == users[uid] IN
    IF user_db = None \/ ~user_db.enabled \/ user_db.role # "police"
    THEN None
    ELSE [kind |-> "Police", uid |-> uid, role |-> user_db.role,
          enabled |-> user_db.enabled, is_admin |-> user_db.is_admin]

\* DoctorService.get_doctor: the new system first, then the legacy
\* "doctors" document with this firebase_uid, whatever its enabled flag.
get_doctor(doctor_uid) ==
    LET doctor == get_doctor_by_firebase_uid(doctor_uid) IN
    IF doctor # None
    THEN [kind |-> "DoctorLegacy", uid |-> doctor_uid, enabled |-> doctor.enabled]
    ELSE IF legacyDoctors[doctor_uid] # None
         THEN [kind |-> "DoctorLegacy", uid |-> doctor_uid,
               enabled |-> legacyDoctors[doctor_uid].enabled]
         ELSE None

\* The detail of an HTTPException: a fixed message, and for verify_roles the
\* roles it lists.
Detail(msg) == [msg |-> msg, roles |-> {}]

InvalidCredentials == Detail("Invalid authentication credentials")

\* A gate that returns its principal after n verify_id_token calls with
\* outcomes o[1..n].
Return(principal, o, n) ==
    [ok |-> TRUE, status_code |-> 200, detail |-> Detail(""),
     principal |-> principal, verdicts |-> [i \in 1..n |-> o[i]]]

\* A gate that raises HTTPException(status_code, detail).
Raise(status_code, detail, o, n) ==
    [ok |-> FALSE, status_code |-> status_code, detail |-> detail,
     principal |-> None, verdicts |-> [i \in 1..n |-> o[i]]]

\* verify_token_and_get_user without the enabled checks of the lookup and of
\* the gate: any existing user document is returned.
verify_token_and_get_user_ignoring_enabled(token, o) ==
    IF ~o[1]
    THEN Raise(401, InvalidCredentials, o, 1)
    ELSE IF users[token] = None
         THEN Raise(401, Detail("User not found"), o, 1)
         ELSE Return([kind |-> "User", uid |-> token, role |-> users[token].role,
                      enabled |-> users[token].enabled,
                      is_admin |-> users[token].is_admin], o, 1)

\* verify_token_and_get_user verifying a rejected token a second time.
verify_token_and_get_user_retrying(token, o) ==
    IF ~o[1] /\ ~o[2]
    THEN Raise(401, InvalidCredentials, o, 2)
    ELSE LET n == IF o[1] THEN 1 ELSE 2
             user == get_user_by_firebase_uid(token) IN
         IF user = None
         THEN Raise(401, Detail("User not found"), o, n)
         ELSE Return(user, o, n)

\* AuthorizationService.verify_token_and_get_user
verify_token_and_get_user(token, o) ==
    IF ~o[1]
    THEN Raise(401, InvalidCredentials, o, 1)
    ELSE LET user == get_user_by_firebase_uid(token) IN
         IF user = None
         THEN Raise(401, Detail("User not found"), o, 1)
         ELSE IF ~user.enabled
              THEN Raise(401, Detail("User account is disabled"), o, 1)
              ELSE Return(user, o, 1)

\* verify_doctor also admitting an enabled administrator.
verify_doctor_or_is_admin(token, o) ==
    IF ~o[1]
    THEN Raise(401, InvalidCredentials, o, 1)
    ELSE LET doctor == get_doctor_by_firebase_uid(token)
             user == get_user_by_firebase_uid(token) IN
         IF doctor # None
         THEN Return(doctor, o, 1)
         ELSE IF user # None /\ user.is_admin
              THEN Return(user, o, 1)
              ELSE Raise(403, Detail("Access denied: Doctor role required"), o, 1)

\* AuthorizationService.verify_doctor
verify_doctor(token, o) ==
    IF ~o[1]
    THEN Raise(401, InvalidCredentials, o, 1)
    ELSE LET doctor == get_doctor_by_firebase_uid(token) IN
         IF doctor = None
         THEN Raise(403, Detail("Access denied: Doctor role required"), o, 1)
         ELSE Return(doctor, o, 1)

\* AuthorizationService.verify_police
verify_police(token, o) ==
    IF ~o[1]
    THEN Raise(401, InvalidCredentials, o, 1)
    ELSE LET police == get_police_by_firebase_uid(token) IN
         IF police = None
         THEN Raise(403, Detail("Access denied: Police role required"), o, 1)
         ELSE Return(police, o, 1)

\* AuthorizationService.verify_admin
verify_admin(token, o) ==
    LET r == verify_token_and_get_user(token, o) IN
    IF ~r.ok THEN r
    ELSE IF ~r.principal.is_admin
         THEN Raise(403, Detail("Access denied: Administrator role required"), o, 1)
         ELSE r

\* The membership test replaced by equality with the one allowed role.
role_allowed_single(role, allowed_roles) == allowed_roles = {role}

\* The membership test of verify_roles: user.role not in allowed_roles.
role_allowed(role, allowed_roles) == role \in allowed_roles

\* verify_roles letting an administrator through whatever its role.
verify_roles_admin_bypass(allowed_roles, token, o) ==
    LET r == verify_token_and_get_user(token, o) IN
    IF ~r.ok THEN r
    ELSE IF ~r.principal.is_admin /\ ~role_allowed(r.principal.role, allowed_roles)
         THEN Raise(403, [msg |-> "Access denied: One of these roles required",
                          roles |-> allowed_roles], o, 1)
         ELSE r

\* AuthorizationService.verify_roles
verify_roles(allowed_roles, token, o) ==
    LET r == verify_token_and_get_user(token, o) IN
    IF ~r.ok THEN r
    ELSE IF ~role_allowed(r.principal.role, allowed_roles)
         THEN Raise(403, [msg |-> "Access denied: One of these roles required",
                          roles |-> allowed_roles], o, 1)
         ELSE r

\* AuthorizationService.verify_doctor_or_admin
verify_doctor_or_admin(token, o) ==
    LET r == verify_token_and_get_user(token, o) IN
    IF ~r.ok THEN r
    ELSE IF r.principal.role = "doctor"
         THEN LET doctor == get_doctor_by_firebase_uid(r.principal.uid) IN
              IF doctor = None
              THEN Raise(403, Detail("Access denied: Doctor profile not found"), o, 1)
              ELSE Return(doctor, o, 1)
         ELSE IF r.principal.is_admin
              THEN r
              ELSE Raise(403, Detail("Access denied: Doctor or Administrator role required"), o, 1)

\* FirebaseAuth.verify_admin_token (auth/firebase.py): every exception of
\* verify_admin, its HTTPException(403) included, becomes a 401.
FirebaseAuth_verify_admin_token(token, o) ==
    LET r == verify_admin(token, o) IN
    IF r.ok THEN r
    ELSE Raise(401, InvalidCredentials, o, 1)

\* The legacy branch of FirebaseAuth.verify_token: verify_id_token again,
\* once more after a failure, then DoctorService.get_doctor; whatever is
\* raised inside becomes HTTPException(401, invalid credentials).
legacy_verify_token(token, o) ==
    IF ~o[2] /\ ~o[3]
    THEN Raise(401, InvalidCredentials, o, 3)
    ELSE LET n == IF o[2] THEN 2 ELSE 3
             doctor == get_doctor(token) IN
         IF doctor # None
         THEN Return(doctor, o, n)
         ELSE Raise(401, InvalidCredentials, o, n)

\* FirebaseAuth.verify_token (auth/firebase.py): verify_doctor, and on any
\* HTTPException the legacy branch.
FirebaseAuth_verify_token(token, o) ==
    LET r == verify_doctor(token, o) IN
    IF r.ok THEN r
    ELSE legacy_verify_token(token, o)

\* The dependency functions of auth/authorization.py and the two gate
\* methods of auth/firebase.py that the routers depend on.
Dependencies ==
    {"require_authentication", "require_doctor", "require_police", "require_admin",
     "require_doctor_or_admin", "require_roles", "require_medical_access",
     "require_police_access", "require_medical_or_admin", "require_exam_access",
     "require_exam_admin", "firebase_auth.verify_token",
     "firebase_auth.verify_admin_token"}

\* require_exam_access: require_roles([UserRole.DOCTOR, UserRole.POLICE])
ExamAccessRoles == {"doctor", "police"}

\* What each dependency function of auth/authorization.py resolves to;
\* allowed_roles is read by require_roles alone.
Gate(dependency, allowed_roles, token, o) ==
    CASE dependency = "require_authentication" -> verify_token_and_get_user(token, o)
      [] dependency = "require_doctor" -> verify_doctor(token, o)
      [] dependency = "require_police" -> verify_police(token, o)
      [] dependency = "require_admin" -> verify_admin(token, o)
      [] dependency = "require_doctor_or_admin" -> verify_doctor_or_admin(token, o)
      [] dependency = "require_roles" -> verify_roles(allowed_roles, token, o)
      [] dependency = "require_medical_access" -> verify_doctor(token, o)
      [] dependency = "require_police_access" -> verify_police(token, o)
      [] dependency = "require_medical_or_admin" -> verify_doctor_or_admin(token, o)
      [] dependency = "require_exam_access" -> verify_roles(ExamAccessRoles, token, o)
      [] dependency = "require_exam_admin" -> verify_admin(token, o)
      [] dependency = "firebase_auth.verify_token" -> FirebaseAuth_verify_token(token, o)
      [] dependency = "firebase_auth.verify_admin_token" ->
             FirebaseAuth_verify_admin_token(token, o)

\* The routes of the model: the dependency each endpoint declares and
\* whether its body reaches a patient, visit, exam or exam-result store.
\* The three dependency functions no router uses are listed as routes of
\* their own, with a body that reaches the stores.
Routes ==
    {[endpoint |-> "user.get_current_user_profile", dependency |-> "require_authentication", store |-> FALSE],
     [endpoint |-> "user.get_current_doctor_profile", dependency |-> "require_doctor", store |-> FALSE],
     [endpoint |-> "police.get_current_police_profile", dependency |-> "require_police", store |-> FALSE],
     [endpoint |-> "police.get_all_police", dependency |-> "require_admin", store |-> FALSE],
     [endpoint |-> "user.get_all_doctors", dependency |-> "require_doctor_or_admin", store |-> FALSE],
     [endpoint |-> "exams.create_exam", dependency |-> "require_exam_admin", store |-> TRUE],
     [endpoint |-> "exams.delete_exam", dependency |-> "require_exam_admin", store |-> TRUE],
     [endpoint |-> "exams.get_exam", dependency |-> "require_exam_access", store |-> TRUE],
     [endpoint |-> "exams.submit_exam_result", dependency |-> "require_exam_access", store |-> TRUE],
     [endpoint |-> "visit.create_visit", dependency |-> "firebase_auth.verify_token", store |-> TRUE],
     [endpoint |-> "visit.add_blood_analysis_to_visit", dependency |-> "firebase_auth.verify_token", store |-> TRUE],
     [endpoint |-> "patients.create_patient", dependency |-> "firebase_auth.verify_token", store |-> TRUE],
     [endpoint |-> "visit.delete_visit", dependency |-> "firebase_auth.verify_admin_token", store |-> TRUE],
     [endpoint |-> "patients.delete_patient", dependency |-> "firebase_auth.verify_admin_token", store |-> TRUE],
     [endpoint |-> "(require_medical_access)", dependency |-> "require_medical_access", store |-> TRUE],
     [endpoint |-> "(require_medical_or_admin)", dependency |-> "require_medical_or_admin", store |-> TRUE],
     [endpoint |-> "(require_police_access)", dependency |-> "require_police_access", store |-> TRUE],
     [endpoint |-> "(require_roles)", dependency |-> "require_roles", store |-> TRUE]}

\* No request in flight.
Idle ==
    [pc |-> "idle", endpoint |-> "", dependency |-> "", store |-> FALSE,
     allowed_roles |-> {}, token |-> BadToken, result |-> None, storeOps |-> 0]

\* An endpoint body that runs whatever its dependency did.
AfterGate_always_handler(result) == "handler"

\* Where a request goes once its dependency has run: FastAPI calls the
\* endpoint body only when the dependency returned.
AfterGate(result) == IF result.ok THEN "handler" ELSE "rejected"

\* A request arrives: a route, a bearer token and, for require_roles, the
\* roles the route lists.
NewRequest(route, token, allowed_roles) ==
    /\ req.pc = "idle"
    /\ req' = [pc |-> "gate", endpoint |-> route.endpoint,
               dependency |-> route.dependency, store |-> route.store,
               allowed_roles |-> allowed_roles, token |-> token,
               result |-> None, storeOps |-> 0]
    /\ UNCHANGED <<users, legacyDoctors, syncVars, examVars>>

\* The dependency of the request runs, against the verifier outcomes o.
RunGate(o) ==
    /\ req.pc = "gate"
    /\ LET result == Gate(req.dependency, req.allowed_roles, req.token, o) IN
       req' = [req EXCEPT !.result = result, !.pc = AfterGate(result)]
    /\ UNCHANGED <<users, legacyDoctors, syncVars, examVars>>

\* The endpoint body runs; a body with record-store logic reads or writes
\* its store.
RunHandler ==
    /\ req.pc = "handler"
    /\ req' = [req EXCEPT !.pc = "done",
                          !.storeOps = IF req.store THEN @ + 1 ELSE @]
    /\ UNCHANGED <<users, legacyDoctors, syncVars, examVars>>

\* The response is sent: the 200 of the body, or the HTTPException of the
\* dependency.
Respond ==
    /\ req.pc \in {"done", "rejected"}
    /\ req' = Idle
    /\ UNCHANGED <<users, legacyDoctors, syncVars, examVars>>

\* UserService.register_doctor / create_doctor: a new Firebase subject and
\* its enabled, non-admin user document with role doctor.
register_doctor(uid) ==
    /\ req.pc = "idle"
    /\ users[uid] = None
    /\ users' = [users EXCEPT ![uid] =
                    [kind |-> "UserDB", role |-> "doctor", enabled |-> TRUE, is_admin |-> FALSE]]
    /\ UNCHANGED <<legacyDoctors, req, syncVars, examVars>>

\* UserService.register_police / create_police
register_police(uid) ==
    /\ req.pc = "idle"
    /\ users[uid] = None
    /\ users' = [users EXCEPT ![uid] =
                    [kind |-> "UserDB", role |-> "police", enabled |-> TRUE, is_admin |-> FALSE]]
    /\ UNCHANGED <<legacyDoctors, req, syncVars, examVars>>

\* DoctorService._create_doctor_legacy: a new Firebase subject and its
\* legacy "doctors" document.
create_doctor_legacy(uid) ==
    /\ req.pc = "idle"
    /\ users[uid] = None
    /\ legacyDoctors[uid] = None
    /\ legacyDoctors' = [legacyDoctors EXCEPT ![uid] = [kind |-> "DoctorLegacy", enabled |-> TRUE]]
    /\ UNCHANGED <<users, req, syncVars, examVars>>

\* UserDB.disable_user, saved with UserRepository.update_user.
disable_user(uid) ==
    /\ req.pc = "idle"
    /\ users[uid] # None
    /\ users[uid].enabled
    /\ users' = [users EXCEPT ![uid].enabled = FALSE]
    /\ UNCHANGED <<legacyDoctors, req, syncVars, examVars>>

\* UserDB.enable_user, saved with UserRepository.update_user.
enable_user(uid) ==
    /\ req.pc = "idle"
    /\ users[uid] # None
    /\ ~users[uid].enabled
    /\ users' = [users EXCEPT ![uid].enabled = TRUE]
    /\ UNCHANGED <<legacyDoctors, req, syncVars, examVars>>

(***************************************************************************)
(* Part 2.  The visit and patient stores and the denormalised observation  *)
(* write (add_blood_analysis_with_patient_sync and its radiology twin).    *)
(***************************************************************************)

\* Visits ever created (visit_id is a fresh uuid4, never reused).
MaxVisits == 2

\* Requests of record_observation ever started; each constructs two records
\* (analysis_id / study_id are fresh uuid4 values, one per record).
MaxSyncs == 2

\* Observations ever entered directly on a patient.
MaxDirect == 1

\* Requests of record_observation that can be in flight together.
MaxProcs == 1

VisitIds == 1..MaxVisits

\* visit_related_id = None
NoVisit == 0

Procs == 1..MaxProcs

\* Requests of record_observation in flight at once in the runs that follow
\* two clients of one visit.
MaxRaceProcs == 2

RaceProcs == 1..MaxRaceProcs

\* National identifiers of patients.
DNIs == {"P1"}

\* National identifiers of the doctors who author observations.
Authors == {"D1"}

\* The payload of a BloodAnalysisCreate / RadiologyStudyCreate.
Payloads == {"a", "b"}

\* blood_analyses or radiology_studies
Kinds == {"blood_analyses", "radiology_studies"}

\* models/patient.py BloodAnalysis / RadiologyStudy
Observation(id, payload, performed_by_dni, visit_related_id) ==
    [id |-> id, payload |-> payload, performed_by_dni |-> performed_by_dni,
     visit_related_id |-> visit_related_id]

\* VisitDB.add_blood_analysis / add_radiology_study: the record is tied to
\* this visit and appended.
VisitDB_add(visit_db, visit_id, kind, analysis) ==
    [visit_db EXCEPT ![kind] =
        Append(@, [analysis EXCEPT !.visit_related_id = visit_id])]

\* The patient-side append with the visit relation dropped.
PatientDB_add_unrelated(patient_db, kind, analysis, visit_id) ==
    [patient_db EXCEPT ![kind] = Append(@, analysis)]

\* PatientDB.add_blood_analysis / add_radiology_study: visit_related_id is
\* set when a visit_id is given, and the record is appended.
PatientDB_add(patient_db, kind, analysis, visit_id) ==
    [patient_db EXCEPT ![kind] =
        Append(@, IF visit_id # NoVisit
                  THEN [analysis EXCEPT !.visit_related_id = visit_id]
                  ELSE analysis)]

\* PatientDB.get_blood_analyses_by_visit / get_radiology_studies_by_visit
get_by_visit(patient_db, kind, visit_id) ==
    SelectSeq(patient_db[kind], LAMBDA a : a.visit_related_id = visit_id)

\* No record_observation in flight in this slot.
NoOp ==
    [pc |-> "idle", kind |-> "", visit_id |-> NoVisit, payload |-> "",
     performed_by_dni |-> "", patient_dni |-> "", visit_db |-> None,
     patient_db |-> None, visit_result |-> None, result |-> None]

\* patients.create_patient: 201 with the created patient, 409 "Patient with
\* this DNI already exists" when the service returned None.
patients_router_create_patient(created_patient) ==
    IF created_patient = None THEN 409 ELSE 201

\* A create_patient that does not look for an existing document.
create_patient_unchecked(dni) ==
    /\ patients' = [patients EXCEPT ![dni] =
          [kind |-> "PatientDB", enabled |-> TRUE,
           blood_analyses |-> <<>>, radiology_studies |-> <<>>]]
    /\ UNCHANGED <<visits, nextId, nextVisit, op, hist, authVars, examVars>>

\* PatientService.create_patient when no document has this DNI: the new
\* document is written.
create_patient(dni) ==
    /\ patients[dni] = None
    /\ patients' = [patients EXCEPT ![dni] =
          [kind |-> "PatientDB", enabled |-> TRUE,
           blood_analyses |-> <<>>, radiology_studies |-> <<>>]]
    /\ UNCHANGED <<visits, nextId, nextVisit, op, hist, authVars, examVars>>

\* PatientService.create_patient when get_by_dni finds a document, enabled
\* or not: None is returned before anything is written and the router
\* answers with 409.  hist.refused keeps the answer with the document that
\* was found.
create_patient_existing(dni) ==
    /\ patients[dni] # None
    /\ hist' = [hist EXCEPT !.refused = @ \cup
          {[dni |-> dni, status_code |-> patients_router_create_patient(None),
            existing |-> patients[dni]]}]
    /\ UNCHANGED <<visits, patients, nextId, nextVisit, op, authVars, examVars>>

\* patients.delete_patient and PatientService.delete_patient: 404 unless the
\* patient exists and is enabled, then the document is saved disabled.
delete_patient(dni) ==
    /\ patients[dni] # None
    /\ patients[dni].enabled
    /\ patients' = [patients EXCEPT ![dni].enabled = FALSE]
    /\ UNCHANGED <<visits, nextId, nextVisit, op, hist, authVars, examVars>>

\* VisitService.create_visit: a new visit in ADMISSION for the given
\* patient_dni; the patient is not looked up.
create_visit(patient_dni) ==
    /\ nextVisit <= MaxVisits
    /\ visits' = [visits EXCEPT ![nextVisit] =
          [kind |-> "VisitDB", patient_dni |-> patient_dni, visit_status |-> "admission",
           blood_analyses |-> <<>>, radiology_studies |-> <<>>]]
    /\ nextVisit' = nextVisit + 1
    /\ UNCHANGED <<patients, nextId, op, hist, authVars, examVars>>

\* VisitService.discharge_visit with VisitDB.discharge_patient
discharge_visit(visit_id) ==
    /\ visits[visit_id] # None
    /\ visits' = [visits EXCEPT ![visit_id].visit_status = "discharge"]
    /\ UNCHANGED <<patients, nextId, nextVisit, op, hist, authVars, examVars>>

\* visit.delete_visit and VisitService.delete_visit: 404 unless the visit
\* exists, then the document is removed.
delete_visit(visit_id) ==
    /\ visits[visit_id] # None
    /\ visits' = [visits EXCEPT ![visit_id] = None]
    /\ UNCHANGED <<patients, nextId, nextVisit, op, hist, authVars, examVars>>

\* PatientService.add_blood_analysis / add_radiology_study called from the
\* patients router: no visit_id, so the record carries no visit_related_id.
patient_add_observation(dni, kind, payload, performed_by_dni) ==
    /\ hist.direct < MaxDirect
    /\ patients[dni] # None
    /\ patients[dni].enabled
    /\ patients' = [patients EXCEPT ![dni] =
          PatientDB_add(@, kind, Observation(nextId, payload, performed_by_dni, NoVisit), NoVisit)]
    /\ nextId' = nextId + 1
    /\ hist' = [hist EXCEPT !.direct = @ + 1,
                            !.origin = @ \cup {<<nextId, NoVisit>>}]
    /\ UNCHANGED <<visits, nextVisit, op, authVars, examVars>>

\* visit.add_blood_analysis_to_visit / add_radiology_study_to_visit: a
\* request of record_observation arrives.  The two uuid4 values its records
\* will carry (visit copy, patient copy) are drawn here.
StartSync(p, kind, visit_id, payload, performed_by_dni) ==
    /\ op[p].pc = "idle"
    /\ hist.syncs < MaxSyncs
    /\ op' = [op EXCEPT ![p] =
          [NoOp EXCEPT !.pc = "load", !.kind = kind, !.visit_id = visit_id,
                       !.payload = payload, !.performed_by_dni = performed_by_dni,
                       !.visit_result = Observation(nextId, payload, performed_by_dni, NoVisit),
                       !.patient_db = None]]
    /\ nextId' = nextId + 2
    /\ hist' = [hist EXCEPT !.syncs = @ + 1,
                            !.origin = @ \cup {<<nextId, visit_id>>, <<nextId + 1, visit_id>>}]
    /\ UNCHANGED <<visits, patients, nextVisit, authVars, examVars>>

\* The first read without its test: the request goes on whatever
\* get_by_id returned.
SyncLoad_unchecked(p) ==
    /\ op[p].pc = "load"
    /\ op' = [op EXCEPT ![p] = [@ EXCEPT !.pc = "visit_read"]]
    /\ UNCHANGED <<visits, patients, nextId, nextVisit, hist, authVars, examVars>>

\* add_*_with_patient_sync, first read: repository.get_by_id(visit_id);
\* None is returned when the visit is absent.
SyncLoad(p) ==
    /\ op[p].pc = "load"
    /\ LET visit_db == visits[op[p].visit_id] IN
       op' = [op EXCEPT ![p] =
          IF visit_db = None
          THEN [@ EXCEPT !.pc = "done", !.result = None]
          ELSE [@ EXCEPT !.pc = "visit_read", !.patient_dni = visit_db.patient_dni]]
    /\ UNCHANGED <<visits, patients, nextId, nextVisit, hist, authVars, examVars>>

\* VisitService.add_blood_analysis / add_radiology_study, its own
\* repository.get_by_id(visit_id).
VisitRead(p) ==
    /\ op[p].pc = "visit_read"
    /\ LET visit_db == visits[op[p].visit_id] IN
       op' = [op EXCEPT ![p] =
          IF visit_db = None
          THEN [@ EXCEPT !.pc = "done", !.result = None]
          ELSE [@ EXCEPT !.pc = "visit_write", !.visit_db = visit_db]]
    /\ UNCHANGED <<visits, patients, nextId, nextVisit, hist, authVars, examVars>>

\* The visit write with its outcome ignored: the patient step follows a
\* failed write as well.
VisitWrite_ignoring_failure(p, written) ==
    /\ op[p].pc = "visit_write"
    /\ LET analysis == [op[p].visit_result EXCEPT !.visit_related_id = op[p].visit_id]
           visit_db == VisitDB_add(op[p].visit_db, op[p].visit_id, op[p].kind, analysis) IN
       /\ visits' = IF written THEN [visits EXCEPT ![op[p].visit_id] = visit_db] ELSE visits
       /\ op' = [op EXCEPT ![p] =
             [@ EXCEPT !.pc = "patient_read", !.visit_result = analysis, !.visit_db = None]]
       /\ hist' = IF written THEN hist ELSE [hist EXCEPT !.writeFailed = TRUE]
    /\ UNCHANGED <<patients, nextId, nextVisit, authVars, examVars>>

\* VisitService.add_blood_analysis / add_radiology_study: the record is
\* appended to the loaded document and repository.update sets the whole
\* document; when the write fails None is returned and the operation ends.
VisitWrite(p, written) ==
    /\ op[p].pc = "visit_write"
    /\ LET analysis == [op[p].visit_result EXCEPT !.visit_related_id = op[p].visit_id]
           visit_db == VisitDB_add(op[p].visit_db, op[p].visit_id, op[p].kind, analysis) IN
       IF written
       THEN /\ visits' = [visits EXCEPT ![op[p].visit_id] = visit_db]
            /\ op' = [op EXCEPT ![p] =
                  [@ EXCEPT !.pc = "patient_read", !.visit_result = analysis,
                            !.visit_db = None]]
            /\ hist' = hist
       ELSE /\ visits' = visits
            /\ op' = [op EXCEPT ![p] =
                  [@ EXCEPT !.pc = "done", !.result = None, !.visit_db = None]]
            /\ hist' = [hist EXCEPT !.writeFailed = TRUE]
    /\ UNCHANGED <<patients, nextId, nextVisit, authVars, examVars>>

\* The patient lookup with its failure surfaced: the request fails when
\* the patient is absent or disabled.
PatientRead_surfacing_failure(p) ==
    /\ op[p].pc = "patient_read"
    /\ LET patient_db == patients[op[p].patient_dni] IN
       op' = [op EXCEPT ![p] =
          IF patient_db = None \/ ~patient_db.enabled
          THEN [@ EXCEPT !.pc = "done", !.result = None]
          ELSE [@ EXCEPT !.pc = "patient_write", !.patient_db = patient_db]]
    /\ UNCHANGED <<visits, patients, nextId, nextVisit, hist, authVars, examVars>>

\* PatientService.add_blood_analysis / add_radiology_study, called with the
\* patient_dni of the first read: None when the patient is absent or
\* disabled, and the operation still returns the visit-side record.
PatientRead(p) ==
    /\ op[p].pc = "patient_read"
    /\ LET patient_db == patients[op[p].patient_dni] IN
       op' = [op EXCEPT ![p] =
          IF patient_db = None \/ ~patient_db.enabled
          THEN [@ EXCEPT !.pc = "done", !.result = op[p].visit_result]
          ELSE [@ EXCEPT !.pc = "patient_write", !.patient_db = patient_db]]
    /\ UNCHANGED <<visits, patients, nextId, nextVisit, hist, authVars, examVars>>

\* PatientService.add_blood_analysis / add_radiology_study: a new record
\* (its own uuid4) is appended to the loaded document and repository.update
\* sets the whole document; the visit-side record is returned either way.
PatientWrite(p, written) ==
    /\ op[p].pc = "patient_write"
    /\ LET analysis == Observation(op[p].visit_result.id + 1, op[p].payload,
                                   op[p].performed_by_dni, NoVisit)
           patient_db == PatientDB_add(op[p].patient_db, op[p].kind, analysis, op[p].visit_id) IN
       /\ patients' = IF written
                      THEN [patients EXCEPT ![op[p].patient_dni] = patient_db]
                      ELSE patients
       /\ hist' = IF written THEN hist ELSE [hist EXCEPT !.writeFailed = TRUE]
    /\ op' = [op EXCEPT ![p] =
          [@ EXCEPT !.pc = "done", !.result = op[p].visit_result, !.patient_db = None]]
    /\ UNCHANGED <<visits, nextId, nextVisit, authVars, examVars>>

\* visit.add_blood_analysis_to_visit / add_radiology_study_to_visit: the
\* status of the response for what the service returned.
Response(result) == IF result = None THEN 404 ELSE 200

\* The router answers: the record, or 404 "Visit not found" for None.
FinishSync(p) ==
    /\ op[p].pc = "done"
    /\ op' = [op EXCEPT ![p] = NoOp]
    /\ hist' = IF Response(op[p].result) = 200
               THEN [hist EXCEPT !.acked = Append(@, op[p])]
               ELSE hist
    /\ UNCHANGED <<visits, patients, nextId, nextVisit, authVars, examVars>>

\* The process serving the request stops between two of its steps.
Crash(p) ==
    /\ op[p].pc \in {"visit_read", "visit_write", "patient_read", "patient_write"}
    /\ op' = [op EXCEPT ![p] = NoOp]
    /\ hist' = [hist EXCEPT !.interrupted = TRUE]
    /\ UNCHANGED <<visits, patients, nextId, nextVisit, authVars, examVars>>

(***************************************************************************)
(* Part 3.  Exams and exam results (services/exam.py,                      *)
(* services/exam_results.py, models/exam.py).                              *)
(***************************************************************************)

\* Exams ever created (exam_id is a fresh uuid4).
MaxExams == 1

\* Exam results ever stored (result_id is a fresh uuid4).
MaxResults == 2

\* Exam results stored in the runs that also edit the exams.
MaxEditedResults == 1

\* Questions and categories ever constructed (question_id and category_id
\* are fresh uuid4 values, drawn again by every update_exam).
MaxQuestionIds == 2

MaxCategoryIds == 2

\* Categories in one ExamCreate, questions in one CategoryCreate, answers
\* in one ExamSubmission.
MaxCategories == 1

MaxQuestions == 1

MaxAnswers == 2

\* The largest max_error_allowed an ExamCreate carries.
MaxErrorAllowed == 1

ExamIds == 1..MaxExams

ResultIds == 1..MaxResults

QuestionIds == 1..MaxQuestionIds

CategoryIds == 1..MaxCategoryIds

\* A question_id or category_id that no stored document carries.
UnknownId == 0

\* The sequences over S of length at most n.
BoundedSeq(S, n) == UNION {[1..k -> S] : k \in 0..n}

\* The option strings of questions and answers.
Options == {"x", "y"}

ExamNames == {"n1", "n2"}

\* The DNI of the administrator who edits exams.
Admins == {"A1"}

\* schemas/exam.py QuestionCreate, CategoryCreate, ExamCreate, reduced to
\* what scoring and the stored result read.
QuestionCreate == [correct_option : Options]

CategoryCreate == [questions : BoundedSeq(QuestionCreate, MaxQuestions)]

ExamCreate ==
    [name : ExamNames, max_error_allowed : 0..MaxErrorAllowed,
     categories : BoundedSeq(CategoryCreate, MaxCategories)]

\* schemas/exam.py QuestionAnswer and the answers of an ExamSubmission.
QuestionAnswer == [question_id : QuestionIds \cup {UnknownId}, selected_option : Options]

ExamSubmission ==
    [exam_id : ExamIds, patient_dni : DNIs, answers : BoundedSeq(QuestionAnswer, MaxAnswers)]

\* The number of questions in the first n categories of a list.
RECURSIVE QuestionsIn(_, _)
QuestionsIn(categories, n) ==
    IF n = 0 THEN 0
    ELSE QuestionsIn(categories, n - 1) + Len(categories[n].questions)

\* The CategoryDB list of ExamService._exam_create_to_exam_db and of
\* add_category_to_exam: every category and every question is constructed
\* with a fresh identifier.
CategoriesDB(categories, category_id, question_id) ==
    [i \in DOMAIN categories |->
        [category_id |-> category_id + i - 1,
         questions |->
            [k \in DOMAIN categories[i].questions |->
                [question_id |-> question_id + QuestionsIn(categories, i - 1) + k - 1,
                 correct_option |-> categories[i].questions[k].correct_option]]]]

\* ExamService._exam_create_to_exam_db
exam_create_to_exam_db(exam_create, category_id, question_id) ==
    [kind |-> "ExamDB", name |-> exam_create.name,
     max_error_allowed |-> exam_create.max_error_allowed,
     categories |-> CategoriesDB(exam_create.categories, category_id, question_id),
     enabled |-> TRUE, disabled_by |-> ""]

\* ExamDB.get_all_questions
RECURSIVE get_all_questions(_)
get_all_questions(categories) ==
    IF categories = <<>> THEN <<>>
    ELSE Head(categories).questions \o get_all_questions(Tail(categories))

\* ExamDB.add_question: the exam with the question appended to the named
\* category, or None when no category has this id.
ExamDB_add_question(exam_db, question, category_id) ==
    IF \E i \in DOMAIN exam_db.categories : exam_db.categories[i].category_id = category_id
    THEN [exam_db EXCEPT !.categories =
            [i \in DOMAIN @ |->
                IF @[i].category_id = category_id
                THEN [@[i] EXCEPT !.questions = Append(@, question)]
                ELSE @[i]]]
    ELSE None

\* A loop that keeps the answers to unknown questions, marked incorrect.
processed_answers_keeping_unknown(answers, all_questions) ==
    LET known(a) == \E i \in DOMAIN all_questions : all_questions[i].question_id = a.question_id
        question(a) == all_questions[CHOOSE i \in DOMAIN all_questions :
                                        all_questions[i].question_id = a.question_id]
    IN [i \in DOMAIN answers |->
           [question_id |-> answers[i].question_id,
            selected_option |-> answers[i].selected_option,
            correct_option |-> IF known(answers[i])
                               THEN question(answers[i]).correct_option ELSE "",
            is_correct |-> known(answers[i])
                           /\ answers[i].selected_option = question(answers[i]).correct_option]]

\* submit_exam_result, the loop over submission.answers: an answer whose
\* question_id is not a key of question_dict is skipped, the others are
\* marked by exact match with the question's correct_option.
processed_answers(answers, all_questions) ==
    LET known(a) == \E i \in DOMAIN all_questions : all_questions[i].question_id = a.question_id
        question(a) == all_questions[CHOOSE i \in DOMAIN all_questions :
                                        all_questions[i].question_id = a.question_id]
        matched == SelectSeq(answers, known)
    IN [i \in DOMAIN matched |->
           [question_id |-> matched[i].question_id,
            selected_option |-> matched[i].selected_option,
            correct_option |-> question(matched[i]).correct_option,
            is_correct |-> matched[i].selected_option = question(matched[i]).correct_option]]

\* score_percentage as the exact fraction num / den (the rounding of the
\* float division is not modelled).
Percentage(correct_answers, total_questions) ==
    IF total_questions > 0
    THEN [num |-> correct_answers * 100, den |-> total_questions]
    ELSE [num |-> 0, den |-> 1]

\* An approval test that demands fewer errors than the limit.
approved_strictly_below(incorrect_answers, max_errors_allowed) ==
    incorrect_answers < max_errors_allowed

\* The approval test of calculate_results.
approved(incorrect_answers, max_errors_allowed) == incorrect_answers <= max_errors_allowed

\* A calculate_results that leaves the status as it was constructed.
calculate_results_keeping_status(result_db, max_errors_allowed) ==
    LET correct_answers ==
            Cardinality({i \in DOMAIN result_db.answers : result_db.answers[i].is_correct})
        incorrect_answers == Len(result_db.answers) - correct_answers
        total_questions == Len(result_db.answers)
    IN [result_db EXCEPT
           !.correct_answers = correct_answers,
           !.incorrect_answers = incorrect_answers,
           !.total_questions = total_questions,
           !.score_percentage = Percentage(correct_answers, total_questions),
           !.is_approved = approved(incorrect_answers, max_errors_allowed)]

\* ExamResultDB.calculate_results
calculate_results(result_db, max_errors_allowed) ==
    LET correct_answers ==
            Cardinality({i \in DOMAIN result_db.answers : result_db.answers[i].is_correct})
        incorrect_answers == Len(result_db.answers) - correct_answers
        total_questions == Len(result_db.answers)
        is_approved == approved(incorrect_answers, max_errors_allowed)
    IN [result_db EXCEPT
           !.correct_answers = correct_answers,
           !.incorrect_answers = incorrect_answers,
           !.total_questions = total_questions,
           !.score_percentage = Percentage(correct_answers, total_questions),
           !.is_approved = is_approved,
           !.status = IF is_approved THEN "passed" ELSE "failed"]

\* The ExamResultDB that submit_exam_result constructs and scores.
ExamResultDB(submission, exam_db) ==
    LET answers == processed_answers(submission.answers, get_all_questions(exam_db.categories))
    IN calculate_results(
           [kind |-> "ExamResultDB", exam_id |-> submission.exam_id,
            exam_name |-> exam_db.name, patient_dni |-> submission.patient_dni,
            answers |-> answers, total_questions |-> Len(answers),
            correct_answers |-> 0, incorrect_answers |-> 0,
            score_percentage |-> Percentage(0, 0), status |-> "pending",
            is_approved |-> FALSE],
           exam_db.max_error_allowed)

\* ExamResultService._result_db_to_response, as get_exam_result returns it.
result_db_to_response(result_db) ==
    [exam_id |-> result_db.exam_id, exam_name |-> result_db.exam_name,
     patient_dni |-> result_db.patient_dni,
     total_questions |-> result_db.total_questions,
     correct_answers |-> result_db.correct_answers,
     incorrect_answers |-> result_db.incorrect_answers,
     score_percentage |-> result_db.score_percentage,
     status |-> result_db.status, is_approved |-> result_db.is_approved]

\* ExamResultService.get_exam_result
get_exam_result(result_id) ==
    IF results[result_id] # None THEN result_db_to_response(results[result_id]) ELSE None

\* ExamService.get_exam
get_exam(exam_id) ==
    IF exams[exam_id] # None /\ exams[exam_id].enabled THEN exams[exam_id] ELSE None

\* ExamService.get_questions_by_exam: the questions without their correct
\* option, or None when the exam is missing or disabled.
get_questions_by_exam(exam_id) ==
    IF exams[exam_id] = None \/ ~exams[exam_id].enabled THEN None
    ELSE [exam_id |-> exam_id,
          categories |->
             [i \in DOMAIN exams[exam_id].categories |->
                 [category_id |-> exams[exam_id].categories[i].category_id,
                  questions |->
                     [k \in DOMAIN exams[exam_id].categories[i].questions |->
                         [question_id |->
                             exams[exam_id].categories[i].questions[k].question_id]]]]]

\* ExamResultService.get_exam_result_detail: None when the result or its
\* exam document is missing; the answers listed are the stored answers whose
\* question_id the exam document has now.
get_exam_result_detail(result_id) ==
    IF results[result_id] = None THEN None
    ELSE IF exams[results[result_id].exam_id] = None THEN None
    ELSE LET all_questions == get_all_questions(exams[results[result_id].exam_id].categories)
             in_question_dict(answer) ==
                 \E i \in DOMAIN all_questions :
                     all_questions[i].question_id = answer.question_id
         IN [response |-> result_db_to_response(results[result_id]),
             answers |-> SelectSeq(results[result_id].answers, in_question_dict)]

\* ExamResultService.get_latest_exam_certificate: built from the latest
\* result of the exam for the patient, None when there is none.
get_latest_exam_certificate(exam_id, patient_dni) ==
    LET found == {result_id \in ResultIds :
                     /\ results[result_id] # None
                     /\ results[result_id].exam_id = exam_id
                     /\ results[result_id].patient_dni = patient_dni}
    IN IF found = {} THEN None
       ELSE LET latest == CHOOSE result_id \in found : \A other \in found : other <= result_id
            IN [citizen_dni |-> results[latest].patient_dni,
                exam_pass |-> results[latest].is_approved]

\* What a handler of routers/exams.py ends with: a returned value, or a
\* raised HTTPException.
Returned == [raised |-> FALSE, status_code |-> 200]

HTTPException(status_code) == [raised |-> TRUE, status_code |-> status_code]

\* The try block shared by the handlers: the service's result is returned
\* when it is truthy (not None, not False), and HTTPException(status_code)
\* is raised otherwise.
try_return(truthy, status_code) ==
    IF truthy THEN Returned ELSE HTTPException(status_code)

\* "except Exception as e: raise HTTPException(status_code=...)" around the
\* try block: HTTPException is an Exception, so what the try block raised
\* is caught and raised again with the status of the except clause.
except_Exception(outcome, status_code) ==
    IF outcome.raised THEN HTTPException(status_code) ELSE outcome

\* routers/exams.py get_exam
exam_router_get_exam(exam_id) ==
    except_Exception(try_return(get_exam(exam_id) # None, 404), 400)

\* routers/exams.py update_exam, for what ExamService.update_exam returns
\* when the write succeeds.
exam_router_update_exam(exam_id) ==
    except_Exception(try_return(get_exam(exam_id) # None, 404), 400)

\* routers/exams.py delete_exam, for what ExamService.delete_exam returns
\* when the write succeeds.
exam_router_delete_exam(exam_id) ==
    except_Exception(try_return(exams[exam_id] # None, 404), 400)

\* What ExamService.add_question_to_category returns when its write
\* succeeds: None for a missing or disabled exam, and otherwise the loaded
\* document after ExamDB.add_question, whose own result is not read.
add_question_to_category_result(exam_id, category_id, new_question) ==
    IF exams[exam_id] = None \/ ~exams[exam_id].enabled THEN None
    ELSE LET added == ExamDB_add_question(exams[exam_id], new_question, category_id)
         IN IF added # None THEN added ELSE exams[exam_id]

\* routers/exams.py add_question_to_category
exam_router_add_question_to_category(exam_id, category_id, question_create) ==
    LET new_question == [question_id |-> fresh.question,
                         correct_option |-> question_create.correct_option]
    IN except_Exception(
          try_return(add_question_to_category_result(exam_id, category_id, new_question)
                        # None, 404), 400)


\* routers/exams.py get_questions_by_exam
exam_router_get_questions_by_exam(exam_id) ==
    except_Exception(try_return(get_questions_by_exam(exam_id) # None, 404), 400)

\* routers/exams.py get_exam_result
exam_router_get_exam_result(result_id) ==
    except_Exception(try_return(get_exam_result(result_id) # None, 404), 400)

\* routers/exams.py get_exam_result_detail
exam_router_get_exam_result_detail(result_id) ==
    except_Exception(try_return(get_exam_result_detail(result_id) # None, 404), 400)

\* routers/exams.py get_exam_certificate
exam_router_get_exam_certificate(exam_id, patient_dni) ==
    except_Exception(try_return(get_latest_exam_certificate(exam_id, patient_dni) # None, 404), 500)

\* ExamService.create_exam
create_exam(exam_create) ==
    /\ fresh.exam <= MaxExams
    /\ fresh.category + Len(exam_create.categories) <= MaxCategoryIds + 1
    /\ fresh.question + QuestionsIn(exam_create.categories, Len(exam_create.categories))
          <= MaxQuestionIds + 1
    /\ exams' = [exams EXCEPT ![fresh.exam] =
          exam_create_to_exam_db(exam_create, fresh.category, fresh.question)]
    /\ fresh' = [fresh EXCEPT
          !.exam = @ + 1,
          !.category = @ + Len(exam_create.categories),
          !.question = @ + QuestionsIn(exam_create.categories, Len(exam_create.categories))]
    /\ UNCHANGED <<results, submitted, pending, authVars, syncVars>>

\* An update_exam that also carries the new name into the stored results of
\* the exam.
update_exam_renaming_results(exam_id, exam_create) ==
    /\ exams[exam_id] # None
    /\ exams[exam_id].enabled
    /\ fresh.category + Len(exam_create.categories) <= MaxCategoryIds + 1
    /\ fresh.question + QuestionsIn(exam_create.categories, Len(exam_create.categories))
          <= MaxQuestionIds + 1
    /\ exams' = [exams EXCEPT ![exam_id] =
          exam_create_to_exam_db(exam_create, fresh.category, fresh.question)]
    /\ fresh' = [fresh EXCEPT
          !.category = @ + Len(exam_create.categories),
          !.question = @ + QuestionsIn(exam_create.categories, Len(exam_create.categories))]
    /\ results' = [result_id \in ResultIds |->
          IF results[result_id] # None /\ results[result_id].exam_id = exam_id
          THEN [results[result_id] EXCEPT !.exam_name = exam_create.name]
          ELSE results[result_id]]
    /\ UNCHANGED <<submitted, pending, authVars, syncVars>>

\* ExamService.update_exam: None unless the exam exists and is enabled; the
\* stored document is replaced by a newly built one under the same exam_id.
update_exam(exam_id, exam_create) ==
    /\ exams[exam_id] # None
    /\ exams[exam_id].enabled
    /\ fresh.category + Len(exam_create.categories) <= MaxCategoryIds + 1
    /\ fresh.question + QuestionsIn(exam_create.categories, Len(exam_create.categories))
          <= MaxQuestionIds + 1
    /\ exams' = [exams EXCEPT ![exam_id] =
          exam_create_to_exam_db(exam_create, fresh.category, fresh.question)]
    /\ fresh' = [fresh EXCEPT
          !.category = @ + Len(exam_create.categories),
          !.question = @ + QuestionsIn(exam_create.categories, Len(exam_create.categories))]
    /\ UNCHANGED <<results, submitted, pending, authVars, syncVars>>

\* ExamService.delete_exam: False unless the exam exists; the document is
\* saved with enabled = False and disabled_by = deleted_by.
delete_exam(exam_id, deleted_by) ==
    /\ exams[exam_id] # None
    /\ exams' = [exams EXCEPT ![exam_id].enabled = FALSE,
                              ![exam_id].disabled_by = deleted_by]
    /\ UNCHANGED <<results, fresh, submitted, pending, authVars, syncVars>>

\* ExamService.add_category_to_exam
add_category_to_exam(exam_id, category_create) ==
    /\ exams[exam_id] # None
    /\ exams[exam_id].enabled
    /\ fresh.category <= MaxCategoryIds
    /\ fresh.question + Len(category_create.questions) <= MaxQuestionIds + 1
    /\ exams' = [exams EXCEPT ![exam_id].categories =
          @ \o CategoriesDB(<<category_create>>, fresh.category, fresh.question)]
    /\ fresh' = [fresh EXCEPT !.category = @ + 1,
                              !.question = @ + Len(category_create.questions)]
    /\ UNCHANGED <<results, submitted, pending, authVars, syncVars>>

\* ExamService.add_question_to_category: the result of ExamDB.add_question
\* is not read, the loaded document is saved either way.
add_question_to_category(exam_id, category_id, question_create) ==
    /\ exams[exam_id] # None
    /\ exams[exam_id].enabled
    /\ fresh.question <= MaxQuestionIds
    /\ LET new_question == [question_id |-> fresh.question,
                            correct_option |-> question_create.correct_option]
           added == ExamDB_add_question(exams[exam_id], new_question, category_id)
       IN exams' = [exams EXCEPT ![exam_id] = IF added # None THEN added ELSE @]
    /\ fresh' = [fresh EXCEPT !.question = @ + 1]
    /\ UNCHANGED <<results, submitted, pending, authVars, syncVars>>

\* ExamService.update_exam up to its call of repository.update: the exam is
\* read, found enabled, and the document to write is built.  pending holds
\* the document between the read and the write of one edit request.
update_exam_load(exam_id, exam_create) ==
    /\ pending = None
    /\ exams[exam_id] # None
    /\ exams[exam_id].enabled
    /\ fresh.category + Len(exam_create.categories) <= MaxCategoryIds + 1
    /\ fresh.question + QuestionsIn(exam_create.categories, Len(exam_create.categories))
          <= MaxQuestionIds + 1
    /\ pending' = [exam_id |-> exam_id,
                   exam_db |-> exam_create_to_exam_db(exam_create, fresh.category,
                                                      fresh.question)]
    /\ fresh' = [fresh EXCEPT
          !.category = @ + Len(exam_create.categories),
          !.question = @ + QuestionsIn(exam_create.categories, Len(exam_create.categories))]
    /\ UNCHANGED <<exams, results, submitted, authVars, syncVars>>

\* ExamService.add_question_to_category up to its call of
\* repository.update: the loaded document with the question added.
add_question_to_category_load(exam_id, category_id, question_create) ==
    /\ pending = None
    /\ exams[exam_id] # None
    /\ exams[exam_id].enabled
    /\ fresh.question <= MaxQuestionIds
    /\ LET new_question == [question_id |-> fresh.question,
                            correct_option |-> question_create.correct_option]
           added == ExamDB_add_question(exams[exam_id], new_question, category_id)
       IN pending' = [exam_id |-> exam_id,
                      exam_db |-> IF added # None THEN added ELSE exams[exam_id]]
    /\ fresh' = [fresh EXCEPT !.question = @ + 1]
    /\ UNCHANGED <<exams, results, submitted, authVars, syncVars>>

\* ExamRepository.update as called by the edit under way: set() replaces the
\* whole exam document, whatever the store holds by now.
ExamRepository_update(written) ==
    /\ pending # None
    /\ exams' = IF written
                THEN [exams EXCEPT ![pending.exam_id] = pending.exam_db]
                ELSE exams
    /\ pending' = None
    /\ UNCHANGED <<results, fresh, submitted, authVars, syncVars>>

\* A submit_exam_result that allows one error fewer for every result
\* already stored.
submit_exam_result_penalising_retries(submission, written) ==
    /\ fresh.result <= MaxResults
    /\ exams[submission.exam_id] # None
    /\ exams[submission.exam_id].enabled
    /\ patients[submission.patient_dni] # None
    /\ patients[submission.patient_dni].enabled
    /\ IF written
       THEN /\ results' = [results EXCEPT ![fresh.result] =
                  calculate_results(ExamResultDB(submission, exams[submission.exam_id]),
                     exams[submission.exam_id].max_error_allowed - (fresh.result - 1))]
            /\ submitted' = [submitted EXCEPT ![fresh.result] =
                  [answers |-> submission.answers, exam_db |-> exams[submission.exam_id]]]
            /\ fresh' = [fresh EXCEPT !.result = @ + 1]
       ELSE UNCHANGED <<results, submitted, fresh>>
    /\ UNCHANGED <<exams, pending, authVars, syncVars>>

\* ExamResultService.submit_exam_result: None unless the exam exists and is
\* enabled and the patient exists and is enabled; the scored result is
\* created under a fresh result_id, and None is returned when the write
\* fails.
submit_exam_result(submission, written) ==
    /\ fresh.result <= MaxResults
    /\ exams[submission.exam_id] # None
    /\ exams[submission.exam_id].enabled
    /\ patients[submission.patient_dni] # None
    /\ patients[submission.patient_dni].enabled
    /\ IF written
       THEN /\ results' = [results EXCEPT ![fresh.result] =
                  ExamResultDB(submission, exams[submission.exam_id])]
            /\ submitted' = [submitted EXCEPT ![fresh.result] =
                  [answers |-> submission.answers, exam_db |-> exams[submission.exam_id]]]
            /\ fresh' = [fresh EXCEPT !.result = @ + 1]
       ELSE UNCHANGED <<results, submitted, fresh>>
    /\ UNCHANGED <<exams, pending, authVars, syncVars>>

(***************************************************************************)
(* Specifications.                                                         *)
(***************************************************************************)

\* The stores of part 2, empty.  hist is the history the properties read:
\* whether a store write failed, whether a request was interrupted, how
\* many requests were made, the visit each record identifier was created
\* under (NoVisit for a direct entry), and the requests of
\* record_observation answered with their record, in the order of the
\* answers, and the create_patient requests that were refused.
SyncInit ==
    /\ visits = [v \in VisitIds |-> None]
    /\ patients = [d \in DNIs |-> None]
    /\ nextId = 1
    /\ nextVisit = 1
    /\ op = [p \in RaceProcs |-> NoOp]
    /\ hist = [writeFailed |-> FALSE, interrupted |-> FALSE, syncs |-> 0, direct |-> 0,
               origin |-> {}, acked |-> <<>>, refused |-> {}]

\* The user directory and the legacy doctors collection hold any documents.
AuthInit ==
    /\ users \in [UIDs -> UserDB \cup {None}]
    /\ legacyDoctors \in [UIDs -> DoctorLegacy \cup {None}]
    /\ req = Idle

\* No exam, no exam result and no edit under way; submitted is the history
\* the properties read: for each stored result, the answers that were
\* submitted and the exam they were scored against.
ExamInit ==
    /\ exams = [exam_id \in ExamIds |-> None]
    /\ results = [result_id \in ResultIds |-> None]
    /\ fresh = [exam |-> 1, category |-> 1, question |-> 1, result |-> 1]
    /\ submitted = [result_id \in ResultIds |-> None]
    /\ pending = None

Init == AuthInit /\ SyncInit /\ ExamInit

Next ==
    \/ \E route \in Routes, token \in Tokens :
          \E allowed_roles \in (IF route.dependency = "require_roles"
                                THEN SUBSET UserRole ELSE {{}}) :
             NewRequest(route, token, allowed_roles)
    \/ \E o \in Oracles(req.token) : RunGate(o)
    \/ RunHandler
    \/ Respond
    \/ \E uid \in UIDs : register_doctor(uid)
    \/ \E uid \in UIDs : register_police(uid)
    \/ \E uid \in UIDs : create_doctor_legacy(uid)
    \/ \E uid \in UIDs : disable_user(uid)
    \/ \E uid \in UIDs : enable_user(uid)

\* Requests against the authorization gate.
Spec == Init /\ [][Next]_vars

SyncNext ==
    \/ \E dni \in DNIs : create_patient(dni)
    \/ \E dni \in DNIs : delete_patient(dni)
    \/ \E dni \in DNIs : create_visit(dni)
    \/ \E visit_id \in VisitIds : discharge_visit(visit_id)
    \/ \E visit_id \in VisitIds : delete_visit(visit_id)
    \/ \E dni \in DNIs, kind \in Kinds, payload \in Payloads, by \in Authors :
          patient_add_observation(dni, kind, payload, by)
    \/ \E p \in Procs, kind \in Kinds, visit_id \in VisitIds, payload \in Payloads,
          by \in Authors : StartSync(p, kind, visit_id, payload, by)
    \/ \E p \in Procs : SyncLoad(p)
    \/ \E p \in Procs : VisitRead(p)
    \/ \E p \in Procs, written \in BOOLEAN : VisitWrite(p, written)
    \/ \E p \in Procs : PatientRead(p)
    \/ \E p \in Procs, written \in BOOLEAN : PatientWrite(p, written)
    \/ \E p \in Procs : FinishSync(p)
    \/ \E p \in Procs : Crash(p)

\* The record-store specification starts with empty stores, an empty user
\* directory and no request at the gate.
InitSync ==
    /\ users = [u \in UIDs |-> None]
    /\ legacyDoctors = [u \in UIDs |-> None]
    /\ req = Idle
    /\ SyncInit
    /\ ExamInit

\* Operations on the visit and patient stores.
SpecSync == InitSync /\ [][SyncNext]_vars

ExamNext ==
    \/ \E dni \in DNIs : create_patient(dni)
    \/ \E dni \in DNIs : delete_patient(dni)
    \/ \E exam_create \in ExamCreate : create_exam(exam_create)
    \/ \E exam_id \in ExamIds, exam_create \in ExamCreate : update_exam(exam_id, exam_create)
    \/ \E exam_id \in ExamIds, deleted_by \in Admins : delete_exam(exam_id, deleted_by)
    \/ \E exam_id \in ExamIds, category_create \in CategoryCreate :
          add_category_to_exam(exam_id, category_create)
    \/ \E exam_id \in ExamIds, category_id \in CategoryIds \cup {UnknownId},
          question_create \in QuestionCreate :
          add_question_to_category(exam_id, category_id, question_create)
    \/ /\ fresh.result <= MaxEditedResults
       /\ \E submission \in ExamSubmission, written \in BOOLEAN :
             submit_exam_result(submission, written)

VisitRaceNext ==
    \/ \E dni \in DNIs : create_patient(dni)
    \/ \E dni \in DNIs : create_visit(dni)
    \/ \E p \in RaceProcs, kind \in Kinds, visit_id \in VisitIds, payload \in Payloads,
          by \in Authors : StartSync(p, kind, visit_id, payload, by)
    \/ \E p \in RaceProcs : SyncLoad(p)
    \/ \E p \in RaceProcs : VisitRead(p)
    \/ \E p \in RaceProcs, written \in BOOLEAN : VisitWrite(p, written)
    \/ \E p \in RaceProcs : PatientRead(p)
    \/ \E p \in RaceProcs, written \in BOOLEAN : PatientWrite(p, written)
    \/ \E p \in RaceProcs : FinishSync(p)

\* Two requests of record_observation at once.
SpecVisitRace == InitSync /\ [][VisitRaceNext]_vars

ExamRaceNext ==
    \/ \E dni \in DNIs : create_patient(dni)
    \/ \E exam_create \in ExamCreate : create_exam(exam_create)
    \/ \E exam_id \in ExamIds, exam_create \in ExamCreate :
          update_exam_load(exam_id, exam_create)
    \/ \E exam_id \in ExamIds, category_id \in CategoryIds \cup {UnknownId},
          question_create \in QuestionCreate :
          add_question_to_category_load(exam_id, category_id, question_create)
    \/ \E written \in BOOLEAN : ExamRepository_update(written)
    \/ \E exam_id \in ExamIds, deleted_by \in Admins : delete_exam(exam_id, deleted_by)
    \/ /\ fresh.result <= MaxEditedResults
       /\ \E submission \in ExamSubmission, written \in BOOLEAN :
             submit_exam_result(submission, written)

\* An exam edit in two steps, its read and its write, with the requests of
\* other clients in between.
SpecExamRace == InitSync /\ [][ExamRaceNext]_vars

PatientNext ==
    \/ \E dni \in DNIs : create_patient(dni)
    \/ \E dni \in DNIs : create_patient_existing(dni)
    \/ \E dni \in DNIs : delete_patient(dni)
    \/ \E dni \in DNIs : create_visit(dni)
    \/ \E visit_id \in VisitIds : discharge_visit(visit_id)
    \/ \E visit_id \in VisitIds : delete_visit(visit_id)
    \/ \E dni \in DNIs, kind \in Kinds, payload \in Payloads, by \in Authors :
          patient_add_observation(dni, kind, payload, by)

\* The patient and visit documents under whole requests, with the refused
\* creations.
SpecPatient == InitSync /\ [][PatientNext]_vars

\* Operations on the exam and exam-result stores.
SpecExam == InitSync /\ [][ExamNext]_vars

ResubmitNext ==
    \/ \E dni \in DNIs : create_patient(dni)
    \/ \E exam_create \in ExamCreate : create_exam(exam_create)
    \/ \E exam_id \in ExamIds, category_id \in CategoryIds \cup {UnknownId},
          question_create \in QuestionCreate :
          add_question_to_category(exam_id, category_id, question_create)
    \/ \E exam_id \in ExamIds, deleted_by \in Admins : delete_exam(exam_id, deleted_by)
    \/ \E submission \in ExamSubmission, written \in BOOLEAN :
          submit_exam_result(submission, written)

\* Repeated submissions against exams that are built once and then at most
\* extended and soft-deleted.
SpecResubmit == InitSync /\ [][ResubmitNext]_vars

(***************************************************************************)
(* Properties of the authorization gate (checked under Spec).              *)
(***************************************************************************)

\* The dependency of the request in flight has run.
Gated == req.pc \in {"handler", "rejected", "done"}

\* Every verify_id_token call of the request accepted the token.
Accepted(result) == \A i \in DOMAIN result.verdicts : result.verdicts[i]

\* No verify_id_token call of the request accepted the token.
Rejected(result) == \A i \in DOMAIN result.verdicts : ~result.verdicts[i]

\* The token belongs to a subject whose user document exists and is enabled.
EnabledUser(token) == token \in UIDs /\ users[token] # None /\ users[token].enabled

\* The token belongs to a subject whose user document exists and is disabled.
DisabledUser(token) == token \in UIDs /\ users[token] # None /\ ~users[token].enabled

\* The verifier outcomes a finished request saw, as an oracle.
Replay(result) ==
    [i \in 1..MaxVerifyCalls |-> i \in DOMAIN result.verdicts /\ result.verdicts[i]]

\* C1: at every gate entry point a request whose token verifies to a subject
\* whose user record has enabled = false yields no principal, whatever the
\* users and legacy doctors collections hold.
C1_DisabledUserLockout ==
    (Gated /\ DisabledUser(req.token)) => ~req.result.ok

\* C2: verify_token_and_get_user returns a principal exactly when the
\* verifier accepts the token, a user record exists for the subject and the
\* record is enabled; in every other case it fails with 401 and no principal.
C2_Authenticate ==
    (Gated /\ req.dependency = "require_authentication") =>
        /\ req.result.ok <=> (req.result.verdicts[1] /\ EnabledUser(req.token))
        /\ req.result.ok =>
              /\ req.result.principal.uid = req.token
              /\ req.result.principal.role = users[req.token].role
              /\ req.result.principal.is_admin = users[req.token].is_admin
        /\ ~req.result.ok =>
              /\ req.result.status_code = 401
              /\ req.result.principal = None

\* C2 witness: a disabled user with an accepted token was refused with 401.
C2_Witness ==
    /\ Gated
    /\ req.dependency = "require_authentication"
    /\ req.result.verdicts[1]
    /\ DisabledUser(req.token)
    /\ req.result.status_code = 401

\* The request failed authentication: the token was rejected, or no local
\* user exists for the subject, or the local user is disabled.
AuthFailed(token, result) ==
    /\ ~result.ok
    /\ \/ Rejected(result)
       \/ users[token] = None
       \/ ~users[token].enabled

\* C3: two requests to the same gate that fail authentication, for whatever
\* reasons, receive the same status code and the same message.
C3_UniformAuthFailure ==
    (Gated /\ AuthFailed(req.token, req.result)) =>
        \A token \in Tokens : \A o \in Oracles(token) :
            LET other == Gate(req.dependency, req.allowed_roles, token, o) IN
            AuthFailed(token, other) =>
                /\ other.status_code = req.result.status_code
                /\ other.detail = req.result.detail

\* The gates the claim on medical access names.
MedicalGates ==
    {"require_medical_access", "require_medical_or_admin", "require_doctor_or_admin",
     "firebase_auth.verify_token"}

\* C4 as stated: each medical gate admits an authenticated, enabled
\* principal if and only if role = doctor or is_admin.
C4_MedicalAccessAsStated ==
    (Gated /\ req.dependency \in MedicalGates /\ Accepted(req.result)
           /\ EnabledUser(req.token)) =>
        (req.result.ok <=>
            (users[req.token].role = "doctor" \/ users[req.token].is_admin))

\* C4 amended: verify_doctor_or_admin admits an authenticated, enabled
\* principal iff role = doctor or is_admin; require_medical_access
\* (verify_doctor) admits it iff role = doctor; FirebaseAuth.verify_token
\* admits it iff role = doctor or a legacy doctors document carries its uid.
C4_MedicalAccess ==
    (Gated /\ req.dependency \in MedicalGates /\ Accepted(req.result)
           /\ EnabledUser(req.token)) =>
        LET user == users[req.token] IN
        /\ req.dependency \in {"require_medical_or_admin", "require_doctor_or_admin"} =>
              (req.result.ok <=> (user.role = "doctor" \/ user.is_admin))
        /\ req.dependency = "require_medical_access" =>
              (req.result.ok <=> user.role = "doctor")
        /\ req.dependency = "firebase_auth.verify_token" =>
              (req.result.ok <=> (user.role = "doctor" \/ legacyDoctors[req.token] # None))

\* C4 witness: an enabled administrator who is not a doctor was refused by
\* require_medical_access.
C4_Witness ==
    /\ Gated
    /\ req.dependency = "require_medical_access"
    /\ Accepted(req.result)
    /\ EnabledUser(req.token)
    /\ users[req.token].is_admin
    /\ users[req.token].role # "doctor"
    /\ ~req.result.ok

C6_RolesMonotone ==
    (Gated /\ req.dependency = "require_roles") =>
        /\ (Accepted(req.result) /\ EnabledUser(req.token)) =>
              (req.result.ok <=> users[req.token].role \in req.allowed_roles)
        /\ req.result.ok =>
              \A x \in UserRole :
                 verify_roles(req.allowed_roles \cup {x}, req.token, Replay(req.result)).ok

\* C6 witness: verify_roles admitted a principal for a single allowed role.
C6_Witness ==
    /\ Gated
    /\ req.dependency = "require_roles"
    /\ req.result.ok
    /\ Cardinality(req.allowed_roles) = 1

\* The gates of the admin-only and doctor-only operations the claim names.
RoleGates ==
    {"firebase_auth.verify_admin_token", "require_exam_admin", "firebase_auth.verify_token"}

\* C7: an authenticated, enabled principal that does not meet the role
\* requirement of an admin-only or doctor-only operation is refused with
\* 403, never with 401.
C7_ForbiddenNotUnauthenticated ==
    (Gated /\ req.dependency \in RoleGates /\ Accepted(req.result)
           /\ EnabledUser(req.token) /\ ~req.result.ok) =>
        req.result.status_code = 403

\* C8: a store access happens only in the body of a request whose gate
\* returned a principal, and a request refused at the gate ends there.
C8_FailureEndsAtGate ==
    [][/\ req'.storeOps > req.storeOps => (req.pc = "handler" /\ req.result.ok)
       /\ req.pc = "rejected" => req' = Idle]_vars

\* C8 witness: a request to an endpoint with record-store logic was refused
\* at the gate.
C8_Witness ==
    /\ req.pc = "rejected"
    /\ req.store
    /\ req.storeOps = 0

Content(a) ==
    [payload |-> a.payload, performed_by_dni |-> a.performed_by_dni,
     visit_related_id |-> a.visit_related_id]

ContentSet(observations) == {Content(observations[i]) : i \in DOMAIN observations}

\* No request of record_observation is in flight.
Quiescent == \A p \in Procs : op[p].pc = "idle"

\* C10: when no store write has failed and no request was interrupted, the
\* observations embedded in every stored visit equal by content (payload,
\* author, visit_related_id) the observations of the owning patient's
\* aggregate that carry this visit's id.
C10_CopiesAgree ==
    (~hist.writeFailed /\ ~hist.interrupted /\ Quiescent) =>
        \A visit_id \in VisitIds : \A kind \in Kinds :
            visits[visit_id] # None =>
                LET patient_db == patients[visits[visit_id].patient_dni] IN
                ContentSet(visits[visit_id][kind]) =
                    IF patient_db = None
                    THEN {}
                    ELSE ContentSet(get_by_visit(patient_db, kind, visit_id))

\* The records of a list of observations.
Records(observations) == {observations[i] : i \in DOMAIN observations}

\* C11: a request of record_observation reaches its patient step only from
\* a visit write that persisted the visit with the new record, writes the
\* patient document only in its patient step, and after a failed visit
\* write ends with a failure and leaves both stores as they were.
C11_VisitBeforePatient ==
    [][\A p \in Procs :
          /\ (op'[p].pc = "patient_read" /\ op[p].pc # "patient_read") =>
                /\ op[p].pc = "visit_write"
                /\ op'[p].visit_result \in Records(visits'[op[p].visit_id][op[p].kind])
          /\ (op'[p].pc = "patient_write" /\ op[p].pc # "patient_write") =>
                op[p].pc = "patient_read"
          /\ (op[p].pc = "visit_write" /\ op'[p].pc = "done") =>
                /\ op'[p].result = None
                /\ visits' = visits
                /\ patients' = patients
          /\ (op'[p] # op[p] /\ patients' # patients) => op[p].pc = "patient_write"]_vars

\* C11 witness: the visit write of a request failed and the request ended
\* with a failure although its patient exists and is enabled.
C11_Witness ==
    \E p \in Procs :
        /\ op[p].pc = "done"
        /\ op[p].result = None
        /\ hist.writeFailed
        /\ visits[op[p].visit_id] # None
        /\ patients[op[p].patient_dni] # None
        /\ patients[op[p].patient_dni].enabled

\* C12: when the visit write of record_observation succeeded and the
\* patient-side append fails (patient absent, patient disabled, or the
\* patient write fails), the request ends with the visit-side record as its
\* result, and the step undoes nothing in the visit store.
C12_PatientFailureNotSurfaced ==
    [][\A p \in Procs :
          LET patient_failed ==
                 \/ op[p].pc = "patient_read" /\ op'[p].pc = "done"
                 \/ op[p].pc = "patient_write" /\ op'[p].pc = "done"
                       /\ patients' = patients
          IN patient_failed =>
                /\ op'[p].result # None
                /\ op'[p].result = op[p].visit_result
                /\ op'[p].result.visit_related_id = op[p].visit_id
                /\ op'[p].result.payload = op[p].payload
                /\ visits' = visits]_vars

\* C12 witness: a request ended with the visit-side record, the visit holds
\* it, and the enabled patient holds no copy because its write failed.
C12_Witness ==
    \E p \in Procs :
        /\ op[p].pc = "done"
        /\ op[p].result # None
        /\ visits[op[p].visit_id] # None
        /\ op[p].result \in Records(visits[op[p].visit_id][op[p].kind])
        /\ hist.writeFailed
        /\ patients[op[p].patient_dni] # None
        /\ patients[op[p].patient_dni].enabled
        /\ get_by_visit(patients[op[p].patient_dni], op[p].kind, op[p].visit_id) = <<>>

\* C13: a request of record_observation that finds no visit under its id
\* ends without a result, which the router answers with 404, and none of
\* its steps writes the visit store or the patient store (a request that is
\* interrupted takes no further step).
C13_UnknownVisitNotFound ==
    [][\A p \in Procs :
          /\ (op[p].pc \in {"load", "visit_read"} /\ op'[p] # op[p]
                  /\ op'[p] # NoOp /\ visits[op[p].visit_id] = None) =>
                /\ op'[p].pc = "done"
                /\ op'[p].result = None
                /\ Response(op'[p].result) = 404
                /\ visits' = visits
                /\ patients' = patients
          /\ (op[p].pc = "done" /\ op[p].result = None /\ op'[p] # op[p]) =>
                /\ op'[p] = NoOp
                /\ visits' = visits
                /\ patients' = patients]_vars

\* C13 witness: a request ended without a result because its visit id is
\* not in the store, with no failed write anywhere.
C13_Witness ==
    \E p \in Procs :
        /\ op[p].pc = "done"
        /\ op[p].result = None
        /\ visits[op[p].visit_id] = None
        /\ ~hist.writeFailed

\* C14: when both writes of a record_observation succeed, the record
\* appended to the patient's aggregate is the record appended to the visit
\* and returned to the caller: same identifier, same visit_related_id,
\* same author, same payload.
C14_PatientCopyEquivalent ==
    [][\A p \in Procs :
          (op[p].pc = "patient_write" /\ op'[p].pc = "done" /\ patients' # patients) =>
              LET copies == patients'[op[p].patient_dni][op[p].kind]
                  copy == copies[Len(copies)]
              IN /\ copy.id = op'[p].result.id
                 /\ copy.visit_related_id = op'[p].result.visit_related_id
                 /\ copy.performed_by_dni = op'[p].result.performed_by_dni
                 /\ copy.payload = op'[p].result.payload]_vars

\* The records of both kinds held by a visit or by a patient.
AllRecords(doc) == UNION {Records(doc[kind]) : kind \in Kinds}

\* C15: every stored observation created through a visit V carries
\* visit_related_id = V, in the visit copy and in the patient copy, and
\* every one entered directly on the patient carries none.
C15_VisitRelatedId ==
    /\ \A visit_id \in VisitIds :
          visits[visit_id] # None =>
              \A a \in AllRecords(visits[visit_id]) :
                  /\ a.visit_related_id = visit_id
                  /\ <<a.id, visit_id>> \in hist.origin
    /\ \A dni \in DNIs :
          patients[dni] # None =>
              \A a \in AllRecords(patients[dni]) :
                  <<a.id, a.visit_related_id>> \in hist.origin

\* C15 witness: a patient's aggregate holds a direct entry and the copy of
\* a record created through a visit, and the visit holds its record.
C15_Witness ==
    \E dni \in DNIs, visit_id \in VisitIds :
        /\ patients[dni] # None
        /\ visits[visit_id] # None
        /\ AllRecords(visits[visit_id]) # {}
        /\ \E a, b \in AllRecords(patients[dni]) :
              /\ a.visit_related_id = NoVisit
              /\ b.visit_related_id = visit_id

\* The contents of a list of observations, in order.
ContentSeq(observations) == [i \in DOMAIN observations |-> Content(observations[i])]

\* The records of the requests of record_observation answered with
\* success for this patient, visit and kind, in the order of the answers.
Added(dni, visit_id, kind) ==
    LET calls == SelectSeq(hist.acked,
                     LAMBDA call : /\ call.patient_dni = dni
                                   /\ call.visit_id = visit_id
                                   /\ call.kind = kind)
    IN [i \in DOMAIN calls |-> calls[i].result]

\* C16: after any sequence of successful record_observation calls, the
\* patient's aggregate filtered by visit_related_id = V holds exactly the
\* observations added under visit V, in insertion order, and nothing else.
C16_RoundTrip ==
    Quiescent =>
        \A dni \in DNIs : \A visit_id \in VisitIds : \A kind \in Kinds :
            patients[dni] # None =>
                ContentSeq(get_by_visit(patients[dni], kind, visit_id)) =
                    ContentSeq(Added(dni, visit_id, kind))

\* C17: a visit is created with status ADMISSION, and once the stored
\* status of a visit is DISCHARGE no step of any request changes it to
\* anything else.
C17_StatusOnlyForward ==
    [][\A visit_id \in VisitIds :
          /\ (nextVisit' # nextVisit /\ visit_id = nextVisit) =>
                visits'[visit_id].visit_status = "admission"
          /\ (visits[visit_id] # None /\ visits'[visit_id] # None
                  /\ visits[visit_id].visit_status = "discharge") =>
                visits'[visit_id].visit_status = "discharge"]_vars

\* The exam results that are stored.
Stored == {result_id \in ResultIds : results[result_id] # None}

\* C18: every stored exam result has 0 <= correct_answers <= total_questions,
\* incorrect_answers = total_questions - correct_answers, is_approved exactly
\* when incorrect_answers is at most the max_error_allowed of the exam it
\* was scored against, and score_percentage equal to
\* 100 * correct_answers / total_questions, within 0..100, and 0 when
\* total_questions is 0.
C18_StoredResultArithmetic ==
    \A result_id \in Stored :
        LET r == results[result_id]
            exam_db == submitted[result_id].exam_db
        IN /\ 0 <= r.correct_answers
           /\ r.correct_answers <= r.total_questions
           /\ r.incorrect_answers = r.total_questions - r.correct_answers
           /\ r.is_approved = (r.incorrect_answers <= exam_db.max_error_allowed)
           /\ r.score_percentage.den > 0
           /\ 0 <= r.score_percentage.num
           /\ r.score_percentage.num <= 100 * r.score_percentage.den
           /\ IF r.total_questions = 0
              THEN r.score_percentage.num = 0
              ELSE r.score_percentage.num * r.total_questions
                      = 100 * r.correct_answers * r.score_percentage.den

\* A stored result with one answer right and one wrong, scored against an
\* exam that allows no error.
C18_Witness ==
    \E result_id \in Stored :
        /\ results[result_id].total_questions = 2
        /\ results[result_id].correct_answers = 1
        /\ submitted[result_id].exam_db.max_error_allowed = 0
        /\ ~results[result_id].is_approved

\* The question ids of an exam document.
QuestionIdsOf(exam_db) ==
    {get_all_questions(exam_db.categories)[i].question_id :
        i \in DOMAIN get_all_questions(exam_db.categories)}

C20_ResultsUntouched ==
    [][\A result_id \in Stored :
          /\ results'[result_id] = results[result_id]
          /\ get_exam_result(result_id)' = get_exam_result(result_id)]_vars

\* A stored result whose exam has since been renamed, given other
\* questions and soft-deleted.
C20_Witness ==
    \E result_id \in Stored :
        LET exam_db == exams[results[result_id].exam_id]
        IN /\ exam_db.name # results[result_id].exam_name
           /\ exam_db.categories # submitted[result_id].exam_db.categories
           /\ exam_db.max_error_allowed # submitted[result_id].exam_db.max_error_allowed
           /\ ~exam_db.enabled
           /\ get_exam_result(result_id).exam_name = submitted[result_id].exam_db.name

C22_StatusDerived ==
    \A result_id \in Stored :
        /\ (results[result_id].status = "passed") = results[result_id].is_approved
        /\ (results[result_id].status = "failed") = ~results[result_id].is_approved
        /\ results[result_id].status \notin {"pending", "cancelled"}

\* A failed result and a passed result, both stored.
C22_Witness ==
    \E r1, r2 \in Stored :
        /\ results[r1].status = "failed"
        /\ results[r1].incorrect_answers > submitted[r1].exam_db.max_error_allowed
        /\ results[r2].status = "passed"

\* C23: when the exam or the exam result does not exist, get exam, update
\* exam, delete exam, get questions, get result, get result detail and get
\* certificate answer with status 404.
C23_NotFoundIs404 ==
    /\ \A exam_id \in ExamIds :
          exams[exam_id] = None =>
             /\ exam_router_get_exam(exam_id).status_code = 404
             /\ exam_router_update_exam(exam_id).status_code = 404
             /\ exam_router_delete_exam(exam_id).status_code = 404
             /\ exam_router_get_questions_by_exam(exam_id).status_code = 404
    /\ \A result_id \in ResultIds :
          results[result_id] = None =>
             /\ exam_router_get_exam_result(result_id).status_code = 404
             /\ exam_router_get_exam_result_detail(result_id).status_code = 404
    /\ \A exam_id \in ExamIds, patient_dni \in DNIs :
          get_latest_exam_certificate(exam_id, patient_dni) = None =>
             exam_router_get_exam_certificate(exam_id, patient_dni).status_code = 404

C25_DeletedExamInert ==
    [][\A exam_id \in ExamIds :
          (exams[exam_id] # None /\ ~exams[exam_id].enabled)
          => /\ exams'[exam_id] # None
             /\ ~exams'[exam_id].enabled
             /\ exams'[exam_id].disabled_by \in Admins]_vars

\* The category ids of an exam document.
CategoryIdsOf(exam_db) ==
    {exam_db.categories[i].category_id : i \in DOMAIN exam_db.categories}

\* C26: add_question_to_category with a category id that the existing,
\* enabled exam does not have ends in a failure, and a request that is
\* answered with success has named a category of the exam.
C26_UnknownCategoryRefused ==
    \A exam_id \in ExamIds, category_id \in CategoryIds \cup {UnknownId},
       question_create \in QuestionCreate :
        (/\ get_exam(exam_id) # None
         /\ category_id \notin CategoryIdsOf(exams[exam_id]))
        => exam_router_add_question_to_category(exam_id, category_id,
                                                question_create).raised

\* C27: what get_exam_result_detail lists for a stored result, one entry
\* per stored answer with its question id, selected option, correct option
\* and correctness, is the same before and after every step, the exam
\* edits update_exam, add_category_to_exam and add_question_to_category
\* included.
C27_DetailUnchanged ==
    [][\A result_id \in Stored :
          /\ get_exam_result_detail(result_id)' = get_exam_result_detail(result_id)
          /\ get_exam_result_detail(result_id)'.answers = results[result_id].answers]_vars

\* C28: when two requests of record_observation on the same visit have both
\* been answered with success, the stored visit holds the record of each.
C28_NoLostObservation ==
    \A i, j \in DOMAIN hist.acked :
        (/\ i # j
         /\ hist.acked[i].visit_id = hist.acked[j].visit_id
         /\ visits[hist.acked[i].visit_id] # None)
        => hist.acked[i].result.id
              \in {a.id : a \in AllRecords(visits[hist.acked[i].visit_id])}

\* C29: once a patient document is stored with enabled = false, every step
\* of every request, the patient-side write of record_observation
\* included, leaves it stored with enabled = false.
C29_DeletedPatientStaysDisabled ==
    [][\A dni \in DNIs :
          (patients[dni] # None /\ ~patients[dni].enabled)
          => (patients'[dni] # None /\ ~patients'[dni].enabled)]_vars

\* The questions of the exam a result was scored against that have no
\* correct answer in the result: answered wrongly, or not answered.
NotAnsweredCorrectly(result_id) ==
    QuestionIdsOf(submitted[result_id].exam_db)
       \ {results[result_id].answers[i].question_id :
             i \in {k \in DOMAIN results[result_id].answers :
                       results[result_id].answers[k].is_correct}}

\* C30: a stored result is approved only if the questions of the exam that
\* were not answered correctly, the unanswered ones included, number at
\* most the exam's max_error_allowed.
C30_UnansweredCountAsErrors ==
    \A result_id \in Stored :
        results[result_id].is_approved
        => Cardinality(NotAnsweredCorrectly(result_id))
              <= submitted[result_id].exam_db.max_error_allowed
====
